---- MODULE Spec2Model ----
(***************************************************************************)
(* Variable-length, order-preserving integer packing (src/src/lib.rs).     *)
(*                                                                         *)
(* Representation used throughout:                                         *)
(*   - a u64 / i64 is a Word: its 8 bytes, most significant first (an i64  *)
(*     in two's complement).  FromNat / FromInt build words from small     *)
(*     integers, ToNat / ToInt read small ones back;                       *)
(*   - a Vec<u8> is a sequence of bytes; the Rust index i is position i+1; *)
(*   - a usize is an integer; where the release build wraps a usize below  *)
(*     zero, the negative integer d stands for the wrapped value 2^64 + d; *)
(*   - a call that can panic returns Ok(v) or Panic(message);              *)
(*   - overflow checks (on in a debug build, off in a release build) are   *)
(*     the parameter oc of every operation whose arithmetic they guard.    *)
(***************************************************************************)
EXTENDS Integers, Sequences, FiniteSets, TLC

\* ------------------------------------------------------------------ bytes
Byte == 0..255

RECURSIVE BitAnd(_, _)
BitAnd(a, b) ==
    IF a = 0 \/ b = 0 THEN 0
    ELSE (IF a % 2 = 1 /\ b % 2 = 1 THEN 1 ELSE 0) + 2 * BitAnd(a \div 2, b \div 2)

RECURSIVE BitOr(_, _)
BitOr(a, b) ==
    IF a = 0 THEN b
    ELSE IF b = 0 THEN a
    ELSE (IF a % 2 = 1 \/ b % 2 = 1 THEN 1 ELSE 0) + 2 * BitOr(a \div 2, b \div 2)

\* ------------------------------------------------------------ 64-bit words
SIZE_OF_U64 == 8

Word == [1..SIZE_OF_U64 -> Byte]

\* the word of a natural number below 2^31
FromNat(n) ==
    [i \in 1..SIZE_OF_U64 |-> IF i <= 4 THEN 0 ELSE (n \div (256 ^ (SIZE_OF_U64 - i))) % 256]

\* bitwise complement of a word
NotW(w) == [i \in 1..SIZE_OF_U64 |-> 255 - w[i]]

\* the two's-complement word of an integer in -2^31 .. 2^31 - 1
FromInt(n) == IF n >= 0 THEN FromNat(n) ELSE NotW(FromNat(-n - 1))

ZeroW == FromNat(0)
U64_MAX == NotW(ZeroW)

IsNeg(w) == w[1] >= 128

\* value of a word whose five high bytes are zero
ToNat(w) == (w[6] * 256 + w[7]) * 256 + w[8]

\* value of an i64 word that fits three bytes
ToInt(w) == IF IsNeg(w) THEN -ToNat(NotW(w)) - 1 ELSE ToNat(w)

\* bit k (0 = least significant) of a word
Bit(w, k) == (w[SIZE_OF_U64 - (k \div 8)] \div (2 ^ (k % 8))) % 2

\* u64 comparison
ULt(a, b) ==
    \E i \in 1..SIZE_OF_U64 : a[i] < b[i] /\ \A j \in 1..(i - 1) : a[j] = b[j]
ULe(a, b) == a = b \/ ULt(a, b)

\* i64 comparison
FlipSign(w) == [w EXCEPT ![1] = (w[1] + 128) % 256]
SLt(a, b) == ULt(FlipSign(a), FlipSign(b))

\* carry into byte i of a + b, borrow into byte i of a - b
RECURSIVE CarryInto(_, _, _)
CarryInto(a, b, i) ==
    IF i = SIZE_OF_U64 THEN 0
    ELSE (a[i + 1] + b[i + 1] + CarryInto(a, b, i + 1)) \div 256

RECURSIVE BorrowInto(_, _, _)
BorrowInto(a, b, i) ==
    IF i = SIZE_OF_U64 THEN 0
    ELSE IF a[i + 1] - b[i + 1] - BorrowInto(a, b, i + 1) < 0 THEN 1 ELSE 0

\* a + b and a - b modulo 2^64 (also the two's-complement i64 sum / difference)
WrappingAdd(a, b) ==
    [i \in 1..SIZE_OF_U64 |-> (a[i] + b[i] + CarryInto(a, b, i)) % 256]
WrappingSub(a, b) ==
    [i \in 1..SIZE_OF_U64 |-> (a[i] - b[i] - BorrowInto(a, b, i)) % 256]

\* a + b leaves the u64 range
AddOverflows(a, b) == a[1] + b[1] + CarryInto(a, b, 1) >= 256

\* u64::leading_zeros / i64::leading_zeros: the number of leading zero bits
leading_zeros(x) ==
    IF x = ZeroW THEN 64
    ELSE LET i == CHOOSE k \in 1..SIZE_OF_U64 : x[k] # 0 /\ \A j \in 1..(k - 1) : x[j] = 0
             n == CHOOSE k \in 1..8 : 2 ^ (k - 1) <= x[i] /\ x[i] < 2 ^ k
         IN  8 * (i - 1) + (8 - n)

\* ------------------------------------------------------------ outcomes
Ok(v) == [st |-> "ok", val |-> v, msg |-> ""]
Panic(m) == [st |-> "panic", val |-> <<>>, msg |-> m]
\* a call that was never made
NotRun == [st |-> "none", val |-> <<>>, msg |-> ""]

OOB == "index out of bounds"
SUB_OVERFLOW == "attempt to subtract with overflow"
ADD_OVERFLOW == "attempt to add with overflow"
SHR_OVERFLOW == "attempt to shift right with overflow"
SHL_OVERFLOW == "attempt to shift left with overflow"
CAPACITY_OVERFLOW == "capacity overflow"
UNIMPLEMENTED == "not implemented"

\* ------------------------------------------------------------ constants
NEG_MULTI_MARKER == 16
NEG_2BYTE_MARKER == 32
NEG_1BYTE_MARKER == 64
POS_1BYTE_MARKER == 128
POS_2BYTE_MARKER == 192
POS_MULTI_MARKER == 224

NEG_1BYTE_MIN == -(2 ^ 6)
NEG_2BYTE_MIN == -(2 ^ 13) + NEG_1BYTE_MIN
POS_1BYTE_MAX == (2 ^ 6) - 1
POS_2BYTE_MAX == (2 ^ 13) + POS_1BYTE_MAX

INTPACK64_MAXSIZE == SIZE_OF_U64 + 1

\* the byte made of bits end .. end + 7 of x that lie below bit start
BitsBelow(x, start, end) ==
    LET b(j) == IF end + j < start /\ end + j < 64 THEN Bit(x, end + j) * (2 ^ j) ELSE 0
    IN  b(0) + b(1) + b(2) + b(3) + b(4) + b(5) + b(6) + b(7)

\* get_posint_bits with a mask one bit too narrow: (1 << (start - 1)) - 1
get_posint_bits_narrow(x, start, end, oc) ==
    IF start >= 64 /\ oc THEN Panic(SHL_OVERFLOW)
    ELSE IF end >= 64 /\ oc THEN Panic(SHR_OVERFLOW)
    ELSE Ok(BitsBelow(x, (start % 64) - 1, end % 64))

\* ((x & ((1u64 << start) - 1u64)) >> end) as u8.  Under overflow checks a
\* shift by 64 or more panics; without them the shift amount is taken
\* modulo 64.  Every call in the crate passes start in {5, 6, 8, 13} and
\* end in {0, 8}, which cannot panic, so the callers read the byte (.val).
get_posint_bits(x, start, end, oc) ==
    IF start >= 64 /\ oc THEN Panic(SHL_OVERFLOW)
    ELSE IF end >= 64 /\ oc THEN Panic(SHR_OVERFLOW)
    ELSE Ok(BitsBelow(x, start % 64, end % 64))

\* ((x & ((1i64 << start) - 1i64)) >> end) as u8.  As get_posint_bits, and
\* 1i64 << 63 is i64::MIN, so the subtraction overflows: a panic under
\* overflow checks, the mask i64::MAX without them.  The masked value is
\* not negative, so the arithmetic shift brings in zeros.
get_negint_bits(x, start, end, oc) ==
    IF start >= 64 /\ oc THEN Panic(SHL_OVERFLOW)
    ELSE IF start % 64 = 63 /\ oc THEN Panic(SUB_OVERFLOW)
    ELSE IF end >= 64 /\ oc THEN Panic(SHR_OVERFLOW)
    ELSE Ok(BitsBelow(x, start % 64, end % 64))

\* ------------------------------------------------------------ sizes
lz_posint(x) ==
    IF x = ZeroW THEN SIZE_OF_U64 ELSE leading_zeros(x) \div 8

\* `!x.leading_zeros() >> 3` parses as (!(x.leading_zeros())) >> 3: the u32
\* complement of the count, shifted right by three, which is the 29-bit
\* complement of (count >> 3).
lz_negint(x) ==
    IF NotW(x) = ZeroW THEN SIZE_OF_U64
    ELSE ((2 ^ 29) - 1) - (leading_zeros(x) \div 8)

size_posint(x) == INTPACK64_MAXSIZE - lz_posint(x)

\* usize subtraction: panics under overflow checks, wraps otherwise
UsizeSub(a, b, oc) ==
    IF a < b /\ oc THEN Panic(SUB_OVERFLOW) ELSE Ok(a - b)

size_negint(x, oc) == UsizeSub(INTPACK64_MAXSIZE, lz_negint(x), oc)

size_uint(x) ==
    IF ULe(x, FromNat(POS_1BYTE_MAX)) THEN 1
    ELSE IF ULe(x, FromNat(POS_2BYTE_MAX + 1)) THEN 2
    ELSE size_posint(WrappingSub(x, FromNat(POS_2BYTE_MAX + 1)))

size_int(x, oc) ==
    IF SLt(x, FromInt(NEG_2BYTE_MIN)) THEN size_negint(x, oc)
    ELSE IF SLt(x, FromInt(NEG_1BYTE_MIN)) THEN Ok(2)
    ELSE IF SLt(x, ZeroW) THEN Ok(1)
    ELSE Ok(size_uint(x))

\* ------------------------------------------------------------ packing
\* vec![0; len]: a length above isize::MAX (every wrapped usize) cannot be
\* allocated
VecZeros(len) ==
    IF len < 0 THEN Panic(CAPACITY_OVERFLOW) ELSE Ok([i \in 1..len |-> 0])

\* (x >> shift) as u8 for shift < 64; the bits shifted in are `sign`
\* (0 for a u64, the sign bit for an i64)
ShrAsU8(x, shift, sign) ==
    LET b(j) == (IF shift + j < 64 THEN Bit(x, shift + j) ELSE sign) * (2 ^ j)
    IN  b(0) + b(1) + b(2) + b(3) + b(4) + b(5) + b(6) + b(7)

\* (len - 1) << 3 on a usize.  For a wrapped len the exact result lies
\* outside the integers TLC computes with; it is stood for by the
\* wrapped value in -64..-8 that is congruent to it modulo 64, which shifts
\* and decrements the same way over the few iterations a buffer allows.
UsizeShl3(v) == IF v >= 0 THEN v * 8 ELSE 8 * ((v % 8) - 8)

\* the loop of pack_posint_into / pack_negint_into, from its first statement
RECURSIVE pack_loop(_, _, _, _, _, _, _)
pack_loop(x, res, len, shift, index, sign, oc) ==
    IF (shift >= 64 \/ shift < 0) /\ oc THEN Panic(SHR_OVERFLOW)
    ELSE IF index >= Len(res) THEN Panic(OOB)
    ELSE LET res1 == [res EXCEPT ![index + 1] = ShrAsU8(x, shift % 64, sign)]
         IN  IF shift >= 0 /\ shift < 8 /\ oc THEN Panic(SUB_OVERFLOW)
             ELSE IF len - 1 = 0 THEN Ok(res1)
             ELSE pack_loop(x, res1, len - 1, shift - 8, index + 1, sign, oc)

pack_posint_into(x, res, oc) ==
    LET len == size_posint(x)
        shift == UsizeShl3(len - 1)
    IN  IF Len(res) = 0 THEN Panic(OOB)
        ELSE pack_loop(x, [res EXCEPT ![1] = BitOr(res[1], BitAnd(len, 15))],
                       len, shift, 1, 0, oc)

pack_negint_into(x, res, oc) ==
    LET lz == lz_negint(x)
        len == size_negint(x, oc)
    IN  IF len.st = "panic" THEN len
        ELSE IF len.val = 0 /\ oc THEN Panic(SUB_OVERFLOW)
        ELSE IF Len(res) = 0 THEN Panic(OOB)
        ELSE pack_loop(x, [res EXCEPT ![1] = BitOr(res[1], BitAnd(lz, 15))],
                       len.val, UsizeShl3(len.val - 1), 1,
                       IF IsNeg(x) THEN 1 ELSE 0, oc)

pack_uint(x, oc) ==
    LET len == size_uint(x)
        res == [i \in 1..len |-> 0]
    IN  IF ULe(x, FromNat(POS_1BYTE_MAX))
        THEN Ok([res EXCEPT ![1] = BitOr(POS_1BYTE_MARKER, get_posint_bits(x, 6, 0, oc).val)])
        ELSE IF ULe(x, FromNat(POS_2BYTE_MAX))
        THEN LET y == WrappingSub(x, FromNat(POS_1BYTE_MAX + 1))
             IN  Ok([res EXCEPT ![1] = BitOr(POS_2BYTE_MARKER, get_posint_bits(y, 13, 8, oc).val),
                                ![2] = get_posint_bits(y, 8, 0, oc).val])
        ELSE IF x = FromNat(POS_2BYTE_MAX + 1)
        THEN Ok([res EXCEPT ![1] = BitOr(POS_MULTI_MARKER, 1), ![2] = 0])
        ELSE LET y == WrappingSub(x, FromNat(POS_2BYTE_MAX + 1))
             IN  pack_posint_into(y, [res EXCEPT ![1] = POS_MULTI_MARKER], oc)

pack_int(x, oc) ==
    IF ~SLt(x, ZeroW) THEN pack_uint(x, oc)
    ELSE LET len == size_int(x, oc)
         IN  IF len.st = "panic" THEN len
             ELSE LET v == VecZeros(len.val)
                  IN  IF v.st = "panic" THEN v
                      ELSE LET res == v.val
                           IN  IF SLt(x, FromInt(NEG_2BYTE_MIN))
                               THEN pack_negint_into(x, [res EXCEPT ![1] = NEG_MULTI_MARKER], oc)
                               ELSE IF SLt(x, FromInt(NEG_1BYTE_MIN))
                               THEN LET y == WrappingSub(x, FromInt(NEG_2BYTE_MIN))
                                    IN  Ok([res EXCEPT
                                              ![1] = BitOr(NEG_2BYTE_MARKER, get_negint_bits(y, 13, 8, oc).val),
                                              ![2] = get_negint_bits(y, 8, 0, oc).val])
                               ELSE LET y == WrappingSub(x, FromInt(NEG_1BYTE_MIN))
                                    IN  Ok([res EXCEPT
                                              ![1] = BitOr(NEG_1BYTE_MARKER, get_negint_bits(y, 6, 0, oc).val)])

\* ------------------------------------------------------------ unpacking
\* (x << 8) | b on a u64
Shl8Or(x, b) == [i \in 1..SIZE_OF_U64 |-> IF i = SIZE_OF_U64 THEN b ELSE x[i + 1]]

\* the loop of unpack_posint_from / unpack_negint_from; len is a u8
RECURSIVE unpack_loop(_, _, _, _, _)
unpack_loop(res, x, len, index, oc) ==
    IF index >= Len(res) THEN Panic(OOB)
    ELSE LET x1 == Shl8Or(x, res[index + 1])
         IN  IF len = 0 /\ oc THEN Panic(SUB_OVERFLOW)
             ELSE LET len1 == (len - 1) % 256
                  IN  IF len1 = 0 THEN Ok(x1)
                      ELSE unpack_loop(res, x1, len1, index + 1, oc)

unpack_posint_from(res, oc) ==
    IF Len(res) = 0 THEN Panic(OOB)
    ELSE unpack_loop(res, ZeroW, BitAnd(res[1], 15), 1, oc)

unpack_negint_from(res, oc) ==
    IF Len(res) = 0 THEN Panic(OOB)
    ELSE LET n == BitAnd(res[1], 15)
         IN  IF SIZE_OF_U64 < n /\ oc THEN Panic(SUB_OVERFLOW)
             ELSE unpack_loop(res, U64_MAX, (SIZE_OF_U64 - n) % 256, 1, oc)

unpack_uint(res, oc) ==
    IF Len(res) = 0 THEN Panic(OOB)
    ELSE LET marker == BitAnd(res[1], 240)
         IN  IF marker \in {POS_1BYTE_MARKER, BitOr(POS_1BYTE_MARKER, 16),
                            BitOr(POS_1BYTE_MARKER, 32), BitOr(POS_1BYTE_MARKER, 48)}
             THEN Ok(FromNat(get_posint_bits(FromNat(res[1]), 6, 0, oc).val))
             ELSE IF marker \in {POS_2BYTE_MARKER, BitOr(POS_2BYTE_MARKER, 16)}
             THEN IF Len(res) < 2 THEN Panic(OOB)
                  ELSE Ok(WrappingAdd(
                            Shl8Or(FromNat(get_posint_bits(FromNat(res[1]), 5, 0, oc).val), res[2]),
                            FromNat(POS_1BYTE_MAX + 1)))
             ELSE IF marker = POS_MULTI_MARKER
             THEN LET r == unpack_posint_from(res, oc)
                  IN  IF r.st = "panic" THEN r
                      ELSE IF AddOverflows(r.val, FromNat(POS_2BYTE_MAX + 1)) /\ oc
                      THEN Panic(ADD_OVERFLOW)
                      ELSE Ok(WrappingAdd(r.val, FromNat(POS_2BYTE_MAX + 1)))
             ELSE Panic(UNIMPLEMENTED)

unpack_int(res, oc) ==
    IF Len(res) = 0 THEN Panic(OOB)
    ELSE LET marker == BitAnd(res[1], 240)
         IN  IF marker = NEG_MULTI_MARKER
             THEN unpack_negint_from(res, oc)
             ELSE IF marker \in {NEG_2BYTE_MARKER, BitOr(NEG_2BYTE_MARKER, 16)}
             THEN IF Len(res) < 2 THEN Panic(OOB)
                  ELSE Ok(WrappingAdd(
                            Shl8Or(FromNat(get_negint_bits(FromNat(res[1]), 5, 0, oc).val), res[2]),
                            FromInt(NEG_2BYTE_MIN)))
             ELSE IF marker \in {NEG_1BYTE_MARKER, BitOr(NEG_1BYTE_MARKER, 16),
                                 BitOr(NEG_1BYTE_MARKER, 32), BitOr(NEG_1BYTE_MARKER, 48)}
             THEN Ok(WrappingAdd(FromInt(NEG_1BYTE_MIN),
                                 FromNat(get_negint_bits(FromNat(res[1]), 6, 0, oc).val)))
             ELSE unpack_uint(res, oc)

\* ------------------------------------------------------------ inputs
\* how far past the one- and two-byte categories the exhaustive input range
\* extends, and the longest sampled decoder input
Margin == 2
MaxBufLen == 3

\* the word whose k low bytes are v, and the word 256^k
LowBytes(k, v) == [i \in 1..SIZE_OF_U64 |-> IF i > SIZE_OF_U64 - k THEN v ELSE 0]
Pow256(k) == [i \in 1..SIZE_OF_U64 |-> IF i = SIZE_OF_U64 - k THEN 1 ELSE 0]

I64_MIN == [i \in 1..SIZE_OF_U64 |-> IF i = 1 THEN 128 ELSE 0]
I64_MAX == NotW(I64_MIN)

\* values of every payload length 1..8 of the multi-byte categories
BigU ==
    {WrappingAdd(w, FromNat(POS_2BYTE_MAX + 1)) :
        w \in {LowBytes(k, 255) : k \in 1..7} \cup {Pow256(k) : k \in 1..7}}
    \cup {U64_MAX, WrappingSub(U64_MAX, FromNat(1)), I64_MAX, I64_MIN}
BigI ==
    {NotW(LowBytes(k, 255)) : k \in 2..7} \cup {NotW(Pow256(k)) : k \in 2..7}
    \cup {I64_MIN, WrappingAdd(I64_MIN, FromNat(1)), I64_MAX,
          FromInt(POS_2BYTE_MAX + 1), FromInt(POS_2BYTE_MAX + 2), Pow256(3)}

\* inputs of the one-value properties: every short value, and the big ones
UintInputs == {FromNat(n) : n \in 0..(POS_2BYTE_MAX + 1 + Margin)} \cup BigU
IntInputs ==
    {FromInt(n) : n \in (NEG_2BYTE_MIN - Margin)..(POS_1BYTE_MAX + 1 + Margin)}
    \cup {FromInt(POS_2BYTE_MAX)} \cup BigI

\* inputs of the two-value properties: both sides of every category boundary
UintEdges ==
    {FromNat(n) : n \in {0, 1, POS_1BYTE_MAX, POS_1BYTE_MAX + 1, 255, 319, 320,
                         POS_2BYTE_MAX, POS_2BYTE_MAX + 1, POS_2BYTE_MAX + 2}}
    \cup {WrappingAdd(w, FromNat(POS_2BYTE_MAX + 1)) :
            w \in {LowBytes(1, 255), Pow256(1), Pow256(7)}}
    \cup {U64_MAX}
IntEdges ==
    {FromInt(n) : n \in {NEG_2BYTE_MIN - 1, NEG_2BYTE_MIN, NEG_2BYTE_MIN + 1,
                         NEG_1BYTE_MIN - 1, NEG_1BYTE_MIN, -1, 0, 1,
                         POS_1BYTE_MAX, POS_1BYTE_MAX + 1,
                         POS_2BYTE_MAX, POS_2BYTE_MAX + 1, POS_2BYTE_MAX + 2}}
    \cup {NotW(LowBytes(2, 255)), NotW(Pow256(2)), NotW(LowBytes(7, 255)), I64_MIN, I64_MAX}

\* decoder inputs: headers of every category and of the reserved ranges,
\* multi-byte headers of every kind of length nibble, payloads present,
\* short and missing
HeaderBytes ==
    {0, 15, 16, 17, 22, 23, 24, 25, 31, 32, 63, 64, 127, 128, 191, 192, 223,
     224, 225, 226, 232, 233, 239, 240, 255}
PayloadBytes == {0, 1, 255}
Tails(n) == UNION {[1..k -> PayloadBytes] : k \in 0..n}
Buffers ==
    {<<>>}
    \cup {<<h>> \o t : h \in HeaderBytes, t \in Tails(MaxBufLen - 1)}
    \cup {<<h>> \o [i \in 1..k |-> p] :
            h \in {17, 16, 24, 225, 231, 232}, k \in {7, 8}, p \in PayloadBytes}

\* Vec<u8> comparison: lexicographic, a proper prefix is smaller
VecLt(s, t) ==
    \/ Len(s) < Len(t) /\ \A j \in 1..Len(s) : s[j] = t[j]
    \/ \E i \in 1..Len(s) : i <= Len(t) /\ s[i] < t[i] /\ \A j \in 1..(i - 1) : s[j] = t[j]
VecGe(s, t) == ~VecLt(s, t)

\* ------------------------------------------------------------ state
VARIABLES
    overflow_checks,   \* the build: TRUE debug, FALSE release
    op,                \* the property or decoder that ran, "idle" between runs
    x, y,              \* its integer arguments
    xb, yb,            \* what packing x and y gave
    buf,               \* the buffer handed to a decoder
    dec,               \* what the decoder gave
    verdict            \* what the property returned: "true", "false", "panic"

vars == <<overflow_checks, op, x, y, xb, yb, buf, dec, verdict>>

Init ==
    /\ overflow_checks \in BOOLEAN
    /\ op = "idle"
    /\ x = ZeroW /\ y = ZeroW
    /\ xb = NotRun /\ yb = NotRun
    /\ buf = <<>>
    /\ dec = NotRun
    /\ verdict = "none"

BoolStr(b) == IF b THEN "true" ELSE "false"

\* the body shared by order_is_correct_pos and order_is_correct_neg:
\* pack both values, compare the buffers the way the integers compare
OrderRun(name, a, b, pa, pb, ge) ==
    /\ op' = name
    /\ x' = a /\ y' = b
    /\ xb' = pa
    /\ yb' = IF pa.st = "ok" THEN pb ELSE NotRun
    /\ verdict' = IF pa.st = "ok" /\ pb.st = "ok"
                  THEN BoolStr(IF ge THEN VecGe(pa.val, pb.val) ELSE VecLt(pa.val, pb.val))
                  ELSE "panic"
    /\ UNCHANGED <<overflow_checks, buf, dec>>

order_is_correct_pos ==
    /\ op = "idle"
    /\ \E a \in UintEdges, b \in UintEdges :
         OrderRun("order_is_correct_pos", a, b,
                  pack_uint(a, overflow_checks), pack_uint(b, overflow_checks), ~ULt(a, b))

order_is_correct_neg ==
    /\ op = "idle"
    /\ \E a \in IntEdges, b \in IntEdges :
         OrderRun("order_is_correct_neg", a, b,
                  pack_int(a, overflow_checks), pack_int(b, overflow_checks), ~SLt(a, b))

\* the body shared by pack_and_unpack_pos and pack_and_unpack_neg:
\* pack the value, unpack the buffer, compare
RoundTripRun(name, a, pa, d) ==
    /\ op' = name
    /\ x' = a /\ y' = ZeroW
    /\ xb' = pa /\ yb' = NotRun
    /\ buf' = IF pa.st = "ok" THEN pa.val ELSE <<>>
    /\ dec' = IF pa.st = "ok" THEN d ELSE NotRun
    /\ verdict' = IF pa.st = "ok" /\ d.st = "ok" THEN BoolStr(a = d.val) ELSE "panic"
    /\ UNCHANGED overflow_checks

pack_and_unpack_pos ==
    /\ op = "idle"
    /\ \E a \in UintInputs :
         LET pa == pack_uint(a, overflow_checks)
         IN  RoundTripRun("pack_and_unpack_pos", a, pa,
                          IF pa.st = "ok" THEN unpack_uint(pa.val, overflow_checks)
                          ELSE NotRun)

pack_and_unpack_neg ==
    /\ op = "idle"
    /\ \E a \in IntInputs :
         LET pa == pack_int(a, overflow_checks)
         IN  RoundTripRun("pack_and_unpack_neg", a, pa,
                          IF pa.st = "ok" THEN unpack_int(pa.val, overflow_checks)
                          ELSE NotRun)

\* a caller decodes a buffer it got from elsewhere
Decode(name, b, d) ==
    /\ op' = name
    /\ buf' = b
    /\ dec' = d
    /\ x' = ZeroW /\ y' = ZeroW /\ xb' = NotRun /\ yb' = NotRun /\ verdict' = "none"
    /\ UNCHANGED overflow_checks

CallUnpackUint ==
    /\ op = "idle"
    /\ \E b \in Buffers : Decode("unpack_uint", b, unpack_uint(b, overflow_checks))

CallUnpackInt ==
    /\ op = "idle"
    /\ \E b \in Buffers : Decode("unpack_int", b, unpack_int(b, overflow_checks))

\* the run is over and its values are dropped
Return ==
    /\ op # "idle"
    /\ op' = "idle"
    /\ x' = ZeroW /\ y' = ZeroW /\ xb' = NotRun /\ yb' = NotRun
    /\ buf' = <<>> /\ dec' = NotRun /\ verdict' = "none"
    /\ UNCHANGED overflow_checks

Next ==
    \/ order_is_correct_pos
    \/ order_is_correct_neg
    \/ pack_and_unpack_pos
    \/ pack_and_unpack_neg
    \/ CallUnpackUint
    \/ CallUnpackInt
    \/ Return

Spec == Init /\ [][Next]_vars

\* ------------------------------------------------------------ properties
UnsignedRuns == {"order_is_correct_pos", "pack_and_unpack_pos"}
SignedRuns == {"order_is_correct_neg", "pack_and_unpack_neg"}
Decoders == {"unpack_uint", "unpack_int"}

\* a typed failure handed back to the caller, as the specification names them
Err(e) == [st |-> "err", val |-> <<>>, msg |-> e]

\* C1: unsigned round trip.  Whenever pack_and_unpack_pos has run on x,
\* pack_uint(x) returned a buffer and unpack_uint of it returned exactly x.
C1_UnsignedRoundTrip ==
    op = "pack_and_unpack_pos" => (xb.st = "ok" /\ dec = Ok(x) /\ verdict = "true")

\* C2: signed round trip.  Whenever pack_and_unpack_neg has run on x,
\* pack_int(x) returned a buffer and unpack_int of it returned exactly x.
C2_SignedRoundTrip ==
    op = "pack_and_unpack_neg" => (xb.st = "ok" /\ dec = Ok(x) /\ verdict = "true")

\* C3: unsigned order preservation.  Whenever order_is_correct_pos has run
\* on x and y, both were packed and x < y exactly when pack_uint(x) is
\* lexicographically below pack_uint(y).
C3_UnsignedOrder ==
    op = "order_is_correct_pos" =>
        /\ xb.st = "ok" /\ yb.st = "ok"
        /\ ULt(x, y) <=> VecLt(xb.val, yb.val)

\* C4: signed order preservation.  Whenever order_is_correct_neg has run on
\* x and y, both were packed and x < y (as i64) exactly when pack_int(x) is
\* lexicographically below pack_int(y).
C4_SignedOrder ==
    op = "order_is_correct_neg" =>
        /\ xb.st = "ok" /\ yb.st = "ok"
        /\ SLt(x, y) <=> VecLt(xb.val, yb.val)

\* C5: encoding never fails.  Every pack_uint / pack_int call that was made
\* returned a buffer of 1 to 9 bytes; none panicked.
C5_EncodingNeverFails ==
    op \in UnsignedRuns \cup SignedRuns =>
        /\ xb.st = "ok" /\ Len(xb.val) \in 1..9
        /\ op \in {"order_is_correct_pos", "order_is_correct_neg"} =>
               (yb.st = "ok" /\ Len(yb.val) \in 1..9)

\* C6: reserved markers are a typed error.  A decoder given a buffer whose
\* header byte is in 0x00..0x0F or 0xF0..0xFF returns InvalidMarker: no
\* integer, no panic.
ReservedHeader(b) == Len(b) >= 1 /\ (b[1] <= 15 \/ b[1] >= 240)
C6_ReservedMarkerRejected ==
    (op \in Decoders /\ ReservedHeader(buf)) => dec = Err("InvalidMarker")

\* C7: truncated input is a typed error.  A decoder given a buffer shorter
\* than 1 + the payload length its header implies returns Truncated: no
\* integer, no panic.
ImpliedPayload(h) ==
    IF h \in 192..223 \/ h \in 32..63 THEN 1
    ELSE IF h \in 224..239 \/ h \in 16..31 THEN h % 16
    ELSE 0
TruncatedInput(name, b) ==
    /\ Len(b) >= 1
    /\ name = "unpack_uint" => b[1] \in 192..239
    /\ Len(b) < 1 + ImpliedPayload(b[1])
C7_TruncatedReported ==
    (op \in Decoders /\ TruncatedInput(op, buf)) => dec = Err("Truncated")

\* C8: positive multi-byte layout.  For x > 8255, with y = x - 8256 and
\* L = 8 - floor(leading_zero_bits(y) / 8) (1 when y = 0), pack_uint(x) is
\* the header 0xE0 | L followed by the L low-order bytes of y, big-endian.
MinLenPos(m) == IF m = ZeroW THEN 1 ELSE 8 - (leading_zeros(m) \div 8)
LowOrder(w, l) == SubSeq(w, 9 - l, 8)
PosMultiLayout(v) ==
    LET m == WrappingSub(v, FromNat(8256))
    IN  <<224 + MinLenPos(m)>> \o LowOrder(m, MinLenPos(m))
C8_PosMultiLayout ==
    /\ (op \in UnsignedRuns /\ ULt(FromNat(8255), x)) => xb = Ok(PosMultiLayout(x))
    /\ (op = "order_is_correct_pos" /\ ULt(FromNat(8255), y) /\ xb.st = "ok")
          => yb = Ok(PosMultiLayout(y))

\* C9: short categories are exact.  pack_uint(x) = [0x80 | x] for x in
\* 0..63 and [0xC0 | (y >> 8), y & 0xFF] with y = x - 64 for x in 64..8255;
\* pack_int(x) = [0x40 | (x + 64)] for x in -64..-1 and
\* [0x20 | (y >> 8), y & 0xFF] with y = x + 8256 for x in -8256..-65.
ShortPos(n) ==
    IF n <= 63 THEN <<128 + n>>
    ELSE <<192 + ((n - 64) \div 256), (n - 64) % 256>>
ShortNeg(n) ==
    IF n >= -64 THEN <<64 + (n + 64)>>
    ELSE <<32 + ((n + 8256) \div 256), (n + 8256) % 256>>
IsShortPos(w) == ULe(w, FromNat(8255))
IsShortNeg(w) == IsNeg(w) /\ ~SLt(w, FromInt(-8256))
C9_ShortExact ==
    /\ (op \in UnsignedRuns /\ IsShortPos(x)) => xb = Ok(ShortPos(ToNat(x)))
    /\ (op \in SignedRuns /\ IsShortNeg(x)) => xb = Ok(ShortNeg(ToInt(x)))
    /\ (op = "order_is_correct_pos" /\ IsShortPos(y) /\ xb.st = "ok")
          => yb = Ok(ShortPos(ToNat(y)))
    /\ (op = "order_is_correct_neg" /\ IsShortNeg(y) /\ xb.st = "ok")
          => yb = Ok(ShortNeg(ToInt(y)))

\* a two-byte negative value and a two-byte positive value have been packed
C9_Witness ==
    \/ op = "pack_and_unpack_neg" /\ x = FromInt(-65) /\ xb = Ok(<<63, 255>>)
    \/ op = "pack_and_unpack_pos" /\ x = FromNat(8255) /\ xb = Ok(<<223, 255>>)

\* C10: negative multi-byte layout.  For x < -8256, with
\* L = max(1, 8 - floor(leading_one_bits(x) / 8)), pack_int(x) is the header
\* 0x10 | L followed by the L low-order bytes of x, big-endian.
MinLenNeg(v) ==
    LET l == 8 - (leading_zeros(NotW(v)) \div 8) IN IF l < 1 THEN 1 ELSE l
NegMultiLayout(v) == <<16 + MinLenNeg(v)>> \o LowOrder(v, MinLenNeg(v))
C10_NegMultiLayout ==
    /\ (op \in SignedRuns /\ SLt(x, FromInt(-8256))) => xb = Ok(NegMultiLayout(x))
    /\ (op = "order_is_correct_neg" /\ SLt(y, FromInt(-8256)) /\ xb.st = "ok")
          => yb = Ok(NegMultiLayout(y))

====
